---- MODULE Spec2Model ----
(***************************************************************************)
(* Model of enviroplus_exporter.py: the sampling loop of the main thread,  *)
(* the Prometheus gauges and histograms it writes, collect_all_data, and   *)
(* the publisher threads that read the gauges.                             *)
(*                                                                         *)
(* Units.  Floating-point quantities are held as scaled integers:          *)
(*   temperatures            in thousandths of a degree (the unit of       *)
(*                           /sys/class/thermal/thermal_zone0/temp),       *)
(*   the compensation factor in tenths,                                    *)
(*   particulate masses      in tenths of ug/m3 (500.4 is 5004),           *)
(*   AQI values              in tenths (50 is 500, "just above 50" is 501).*)
(***************************************************************************)
EXTENDS Integers, Sequences, FiniteSets, TLC

(***************************************************************************)
(* Bounds of the model.                                                    *)
(***************************************************************************)
\* Iterations of the sampling loop that are explored.
MaxCycles == 2
\* Iterations of each publisher loop that are explored.
MaxPosts == 2

(***************************************************************************)
(* AQI bands (AQI_CATEGORIES, AQI_COLORS).  Python dictionaries iterate in *)
(* insertion order, so each table is the sequence of its items.            *)
(***************************************************************************)
AQI_CATEGORIES ==
  << [lo |-> -10,  hi |-> 500,  val |-> "Good"],
     [lo |-> 500,  hi |-> 1000, val |-> "Moderate"],
     [lo |-> 1000, hi |-> 1500, val |-> "Unhealthy for Sensitive Groups"],
     [lo |-> 1500, hi |-> 2000, val |-> "Unhealthy"],
     [lo |-> 2000, hi |-> 3000, val |-> "Very Unhealthy"],
     [lo |-> 3000, hi |-> 5000, val |-> "Hazardous"] >>

AQI_COLORS ==
  << [lo |-> -10,  hi |-> 500,  val |-> <<0, 128, 0>>],
     [lo |-> 500,  hi |-> 1000, val |-> <<255, 255, 0>>],
     [lo |-> 1000, hi |-> 1500, val |-> <<255, 165, 0>>],
     [lo |-> 1500, hi |-> 2000, val |-> <<255, 0, 0>>],
     [lo |-> 2000, hi |-> 3000, val |-> <<128, 0, 128>>],
     [lo |-> 3000, hi |-> 5000, val |-> <<128, 0, 0>>] >>

\* ScanBands with the limits tested the other way round: lower bound
\* inclusive, upper bound exclusive.
RECURSIVE ScanBands_lower_inclusive(_, _, _, _)
ScanBands_lower_inclusive(table, i, aqi_value, none) ==
  IF i > Len(table) THEN none
  ELSE IF aqi_value >= table[i].lo /\ aqi_value < table[i].hi
       THEN table[i].val
       ELSE ScanBands_lower_inclusive(table, i + 1, aqi_value, none)

\* The for loop of get_aqi_category / get_aqi_color from item i on: the
\* first item whose limits contain the value wins; a function that falls
\* off its end returns None, written none here.
RECURSIVE ScanBands(_, _, _, _)
ScanBands(table, i, aqi_value, none) ==
  IF i > Len(table) THEN none
  ELSE IF aqi_value > table[i].lo /\ aqi_value <= table[i].hi
       THEN table[i].val
       ELSE ScanBands(table, i + 1, aqi_value, none)

\* None as a category is the string "None", as a colour the empty tuple.
get_aqi_category(aqi_value) == ScanBands(AQI_CATEGORIES, 1, aqi_value, "None")

get_aqi_color(aqi_value) == ScanBands(AQI_COLORS, 1, aqi_value, <<>>)

(***************************************************************************)
(* aqi.to_aqi of the python-aqi package, called by get_particulates with   *)
(* the EPA algorithm (the default): each concentration is truncated to the *)
(* pollutant's precision (0.1 for PM2.5, 1 for PM10), interpolated         *)
(* linearly inside its breakpoint interval, rounded half-to-even to an     *)
(* integer, and the larger of the two indices is returned.  Concentrations *)
(* are in tenths of ug/m3; the result is in tenths of an AQI point.        *)
(***************************************************************************)
EPA_PM25 ==
  << [bplo |-> 0,    bphi |-> 120,  ilo |-> 0,   ihi |-> 50],
     [bplo |-> 121,  bphi |-> 354,  ilo |-> 51,  ihi |-> 100],
     [bplo |-> 355,  bphi |-> 554,  ilo |-> 101, ihi |-> 150],
     [bplo |-> 555,  bphi |-> 1504, ilo |-> 151, ihi |-> 200],
     [bplo |-> 1505, bphi |-> 2504, ilo |-> 201, ihi |-> 300],
     [bplo |-> 2505, bphi |-> 3504, ilo |-> 301, ihi |-> 400],
     [bplo |-> 3505, bphi |-> 5004, ilo |-> 401, ihi |-> 500] >>

EPA_PM10 ==
  << [bplo |-> 0,    bphi |-> 540,  ilo |-> 0,   ihi |-> 50],
     [bplo |-> 550,  bphi |-> 1540, ilo |-> 51,  ihi |-> 100],
     [bplo |-> 1550, bphi |-> 2540, ilo |-> 101, ihi |-> 150],
     [bplo |-> 2550, bphi |-> 3540, ilo |-> 151, ihi |-> 200],
     [bplo |-> 3550, bphi |-> 4240, ilo |-> 201, ihi |-> 300],
     [bplo |-> 4250, bphi |-> 5040, ilo |-> 301, ihi |-> 400],
     [bplo |-> 5050, bphi |-> 6040, ilo |-> 401, ihi |-> 500] >>

\* num / den rounded to the nearest integer, ties to the even one.
RoundHalfEven(num, den) ==
  LET q == num \div den
      r == num % den
  IN  IF 2 * r > den \/ (2 * r = den /\ q % 2 = 1) THEN q + 1 ELSE q

\* The index of one pollutant: cc is the truncated concentration.  A
\* concentration in no interval has no index (the package raises).
iaqi(bps, cc) ==
  LET hit == {i \in 1..Len(bps) : cc >= bps[i].bplo /\ cc <= bps[i].bphi}
  IN  IF hit = {} THEN -1
      ELSE LET bp == bps[CHOOSE i \in hit : TRUE]
           IN  bp.ilo + RoundHalfEven((bp.ihi - bp.ilo) * (cc - bp.bplo),
                                      bp.bphi - bp.bplo)

Max(a, b) == IF a >= b THEN a ELSE b

to_aqi(pm25_value, pm10_value) ==
  10 * Max(iaqi(EPA_PM25, pm25_value),
           iaqi(EPA_PM10, 10 * (pm10_value \div 10)))

(***************************************************************************)
(* State.                                                                  *)
(***************************************************************************)
VARIABLES
  args,        \* the parsed command line (factor, enviro, influxdb, luftdaten, show)
  DEBUG,       \* the DEBUG flag after startup
  hw,          \* what the attached hardware can deliver (fixed for a run)
  gauge,       \* the value of every Gauge
  hist,        \* the observations made on every Histogram, oldest first
  pc,          \* position of the main thread in the sampling loop
  cycle,       \* completed iterations of the sampling loop
  io,          \* the most recent driver read of the main thread and its outcome
  io_errors,   \* IOErrors raised by the drivers so far
  resets,      \* completed calls of reset_i2c
  cpu_temps,   \* the list cpu_temps of the latest get_temperature call
  pms_data,    \* the reading get_particulates holds while it publishes it
  aqi_arg,     \* the concentrations of the latest call of aqi.to_aqi
  sensor_data, \* per thread, the dictionary collect_all_data is filling
  tpc,         \* position of each publisher thread
  cycles,      \* per publisher thread, the iterations begun (sleeps completed)
  influx,      \* calls of influxdb_api.write: how many, how many raised, the last result
  http_posts,  \* every request post_to_luftdaten has made: X-PIN and values
  luftdaten,   \* post_to_luftdaten: its dictionary values, the responses, the report
  draws,       \* calls of display_text made so far
  previous_aqi,\* the local previous_aqi of refresh_display
  lcd,         \* what display_text last drew: text and colour
  lookup       \* a direct call of the two band functions: argument and results

\* The state the main thread writes, and the state the publishers write.
mainvars == <<gauge, hist, pc, cycle, io, io_errors, resets, cpu_temps,
              pms_data, aqi_arg>>

pubvars == <<tpc, cycles, influx, http_posts, luftdaten, draws, previous_aqi, lcd>>

\* What no thread of the program changes once it runs.
confvars == <<args, DEBUG, hw, lookup>>

Threads == {"influx", "luftdaten", "display"}

Gauges == {"TEMPERATURE", "PRESSURE", "HUMIDITY", "OXIDISING", "REDUCING",
           "NH3", "LUX", "PROXIMITY", "PM1", "PM25", "PM10", "AQI"}

Histograms == {"OXIDISING_HIST", "REDUCING_HIST", "NH3_HIST",
               "PM1_HIST", "PM25_HIST", "PM10_HIST"}

\* Gauge.set and Histogram.observe.
GaugeSet(g, name, value) == [g EXCEPT ![name] = value]

\* Observe keeping the latest observation only.
Observe_latest(h, name, value) == [h EXCEPT ![name] = <<value>>]

Observe(h, name, value) == [h EXCEPT ![name] = Append(@, value)]

\* The upper bounds of the buckets of each histogram, the PM ones in tenths;
\* the client library adds a last bucket without upper bound.
BUCKETS ==
  [OXIDISING_HIST |->
     <<0, 10000, 15000, 20000, 25000, 30000, 35000, 40000, 45000, 50000,
       55000, 60000, 65000, 70000, 75000, 80000, 85000, 90000, 100000>>,
   REDUCING_HIST |->
     <<0, 100000, 200000, 300000, 400000, 500000, 600000, 700000, 800000,
       900000, 1000000, 1100000, 1200000, 1300000, 1400000, 1500000>>,
   NH3_HIST |->
     <<0, 10000, 110000, 210000, 310000, 410000, 510000, 610000, 710000,
       810000, 910000, 1010000, 1110000, 1210000, 1310000, 1410000, 1510000,
       1610000, 1710000, 1810000, 1910000, 2000000>>,
   PM1_HIST |->
     <<0, 50, 100, 150, 200, 250, 300, 350, 400, 450, 500, 550, 600, 650,
       700, 750, 800, 850, 900, 950, 1000>>,
   PM25_HIST |->
     <<0, 50, 100, 150, 200, 250, 300, 350, 400, 450, 500, 550, 600, 650,
       700, 750, 800, 850, 900, 950, 1000>>,
   PM10_HIST |->
     <<0, 50, 100, 150, 200, 250, 300, 350, 400, 450, 500, 550, 600, 650,
       700, 750, 800, 850, 900, 950, 1000>>]

\* The bucket an observation is counted in: the first whose upper bound is
\* not below it; the bounds ascend, so it follows the bounds that are below.
BucketOf(bounds, value) ==
  Cardinality({i \in 1..Len(bounds) : bounds[i] < value}) + 1

\* The count of bucket i of histogram name after the observations.
BucketCount(name, observations, i) ==
  Cardinality({k \in 1..Len(observations) :
                 BucketOf(BUCKETS[name], observations[k]) = i})

(***************************************************************************)
(* Sensor readings the drivers can return.                                 *)
(***************************************************************************)
RawTemps == {25000}
PressureReadings == {1013}
HumidityReadings == {40}
LuxReadings == {120}
ProximityReadings == {7}
GasReadings == {[oxidising |-> 20000, reducing |-> 300000, nh3 |-> 150000]}

\* args.factor is the empty tuple when the option is absent (None), else
\* the tuple of its value; "if factor:" takes neither None nor zero.
Truthy(factor) == factor # <<>> /\ factor[1] # 0

(***************************************************************************)
(* get_temperature.                                                        *)
(***************************************************************************)
RECURSIVE Sum(_)
Sum(seq) == IF seq = <<>> THEN 0 ELSE Head(seq) + Sum(Tail(seq))

\* cpu_temps = [get_cpu_temperature()] * 5, then cpu_temps[1:] + [cpu_temp].
SmoothingWindow(first, second) == Tail([i \in 1..5 |-> first]) \o <<second>>

\* Compensate with the factor multiplied in instead of divided out.
Compensate_multiplied(raw_temp, window, factor) ==
  LET avg_cpu_temp == Sum(window) \div Len(window)
  IN  raw_temp - ((avg_cpu_temp - raw_temp) * factor) \div 10

\* raw_temp - ((avg_cpu_temp - raw_temp) / factor), the factor in tenths.
Compensate(raw_temp, window, factor) ==
  LET avg_cpu_temp == Sum(window) \div Len(window)
  IN  raw_temp - ((avg_cpu_temp - raw_temp) * 10) \div factor

\* bme280.get_temperature() is not inside a try: an IOError leaves the
\* function and, uncaught in the loop of __main__, ends the main thread.
get_temperature ==
  /\ pc = "get_temperature"
  /\ cycle < MaxCycles
  /\ sensor_data' = [sensor_data EXCEPT !["main"] = <<>>]
  /\ \/ /\ "get_temperature" \in hw.io_faults
        /\ io' = [read |-> "bme280.get_temperature", outcome |-> "IOError"]
        /\ io_errors' = io_errors + 1
        /\ pc' = "crashed"
        /\ UNCHANGED <<gauge, cpu_temps>>
     \/ \E raw_temp \in RawTemps :
          /\ io' = [read |-> "bme280.get_temperature", outcome |-> "ok"]
          /\ IF Truthy(args.factor)
             THEN \E first \in hw.cpu, second \in hw.cpu :
                    LET window == SmoothingWindow(first, second)
                    IN  /\ cpu_temps' = window
                        /\ gauge' = GaugeSet(gauge, "TEMPERATURE",
                                      Compensate(raw_temp, window, args.factor[1]))
             ELSE /\ gauge' = GaugeSet(gauge, "TEMPERATURE", raw_temp)
                  /\ UNCHANGED cpu_temps
          /\ pc' = "get_pressure"
          /\ UNCHANGED io_errors
  /\ UNCHANGED <<confvars, hist, cycle, resets, pms_data, aqi_arg, pubvars>>

(***************************************************************************)
(* The routines whose read is inside try/except IOError.                   *)
(***************************************************************************)
\* AfterRoutine without the test of args.enviro.
AfterRoutine_ignoring_enviro(routine) ==
  CASE routine = "get_pressure" -> "get_humidity"
    [] routine = "get_humidity" -> "get_light"
    [] routine = "get_light" -> "get_gas"
    [] routine = "get_gas" -> "get_particulates"
    [] routine = "get_particulates" -> "loop_end"

\* Where the loop body goes after a routine returns.
AfterRoutine(routine) ==
  CASE routine = "get_pressure" -> "get_humidity"
    [] routine = "get_humidity" -> "get_light"
    [] routine = "get_light" -> IF args.enviro THEN "loop_end" ELSE "get_gas"
    [] routine = "get_gas" -> "get_particulates"
    [] routine = "get_particulates" -> "loop_end"

\* CatchIOError logging the error only.
CatchIOError_without_reset(routine, read) ==
  /\ routine \in hw.io_faults
  /\ io' = [read |-> read, outcome |-> "IOError"]
  /\ io_errors' = io_errors + 1
  /\ pc' = AfterRoutine(routine)
  /\ UNCHANGED <<gauge, hist>>

\* The except IOError clause: the error is logged and reset_i2c is entered.
CatchIOError(routine, read) ==
  /\ routine \in hw.io_faults
  /\ io' = [read |-> read, outcome |-> "IOError"]
  /\ io_errors' = io_errors + 1
  /\ pc' = "reset_i2c:" \o routine
  /\ UNCHANGED <<gauge, hist>>

get_pressure ==
  /\ pc = "get_pressure"
  /\ \/ CatchIOError("get_pressure", "bme280.get_pressure")
     \/ \E pressure \in PressureReadings :
          /\ io' = [read |-> "bme280.get_pressure", outcome |-> "ok"]
          /\ gauge' = GaugeSet(gauge, "PRESSURE", pressure)
          /\ pc' = AfterRoutine("get_pressure")
          /\ UNCHANGED <<hist, io_errors>>
  /\ UNCHANGED <<confvars, cycle, resets, cpu_temps, pms_data, aqi_arg,
                 sensor_data, pubvars>>

get_humidity ==
  /\ pc = "get_humidity"
  /\ \/ CatchIOError("get_humidity", "bme280.get_humidity")
     \/ \E humidity \in HumidityReadings :
          /\ io' = [read |-> "bme280.get_humidity", outcome |-> "ok"]
          /\ gauge' = GaugeSet(gauge, "HUMIDITY", humidity)
          /\ pc' = AfterRoutine("get_humidity")
          /\ UNCHANGED <<hist, io_errors>>
  /\ UNCHANGED <<confvars, cycle, resets, cpu_temps, pms_data, aqi_arg,
                 sensor_data, pubvars>>

\* Both reads come before both sets: a failed proximity read leaves LUX alone.
get_light ==
  /\ pc = "get_light"
  /\ \/ CatchIOError("get_light", "ltr559.get_lux")
     \/ CatchIOError("get_light", "ltr559.get_proximity")
     \/ \E lux \in LuxReadings, prox \in ProximityReadings :
          /\ io' = [read |-> "ltr559.get_proximity", outcome |-> "ok"]
          /\ gauge' = GaugeSet(GaugeSet(gauge, "LUX", lux), "PROXIMITY", prox)
          /\ pc' = AfterRoutine("get_light")
          /\ UNCHANGED <<hist, io_errors>>
  /\ UNCHANGED <<confvars, cycle, resets, cpu_temps, pms_data, aqi_arg,
                 sensor_data, pubvars>>

\* The three sets and three observes follow one read; no other thread of
\* the program writes a gauge or reads a histogram.
get_gas ==
  /\ pc = "get_gas"
  /\ \/ CatchIOError("get_gas", "gas.read_all")
     \/ \E readings \in GasReadings :
          /\ io' = [read |-> "gas.read_all", outcome |-> "ok"]
          /\ gauge' = GaugeSet(GaugeSet(GaugeSet(gauge,
                        "OXIDISING", readings.oxidising),
                        "REDUCING", readings.reducing),
                        "NH3", readings.nh3)
          /\ hist' = Observe(Observe(Observe(hist,
                        "OXIDISING_HIST", readings.oxidising),
                        "REDUCING_HIST", readings.reducing),
                        "NH3_HIST", readings.nh3)
          /\ pc' = AfterRoutine("get_gas")
          /\ UNCHANGED io_errors
  /\ UNCHANGED <<confvars, cycle, resets, cpu_temps, pms_data, aqi_arg,
                 sensor_data, pubvars>>

\* reset_i2c: i2cdetect, then a sleep of two seconds; the routine that
\* called it returns afterwards.
ResetCallers == {"get_pressure", "get_humidity", "get_light", "get_gas",
                 "get_particulates"}

reset_i2c ==
  /\ \E routine \in ResetCallers :
       /\ pc = "reset_i2c:" \o routine
       /\ pc' = AfterRoutine(routine)
  /\ resets' = resets + 1
  /\ UNCHANGED <<confvars, gauge, hist, cycle, io, io_errors, cpu_temps,
                 pms_data, aqi_arg, sensor_data, pubvars>>

(***************************************************************************)
(* get_particulates.  The read and PM1.set are one step (the read touches  *)
(* nothing shared); PM25.set and PM10.set are steps of their own; AQI.set  *)
(* and the three observes, which no other thread reads, are the last.      *)
(***************************************************************************)
\* pm25_value without the workaround.
pm25_value_raw(pm25) == pm25

\* Workaround for python-aqi issue 27: the concentrations handed to to_aqi.
pm25_value(pm25) == IF pm25 > 5004 THEN 5004 ELSE pm25

pm10_value(pm10) == IF pm10 > 6040 THEN 6040 ELSE pm10

\* The value each PM histogram observes.
PM1_observation(d) == d.pm1

\* PM25_observation observing the cumulative value.
PM25_observation_cumulative(d) == d.pm25

PM25_observation(d) == d.pm25 - d.pm1

PM10_observation(d) == d.pm10 - d.pm25

\* CatchReadTimeout handling the timeout like an IOError.
CatchReadTimeout_reset ==
  /\ hw.timeouts
  /\ io' = [read |-> "pms5003.read", outcome |-> "ReadTimeoutError"]
  /\ pc' = "reset_i2c:get_particulates"
  /\ UNCHANGED <<gauge, hist, io_errors, pms_data>>

\* except pmsReadTimeoutError: a warning is logged, nothing else.
CatchReadTimeout ==
  /\ hw.timeouts
  /\ io' = [read |-> "pms5003.read", outcome |-> "ReadTimeoutError"]
  /\ pc' = AfterRoutine("get_particulates")
  /\ UNCHANGED <<gauge, hist, io_errors, pms_data>>

get_particulates ==
  /\ pc = "get_particulates"
  /\ \/ CatchReadTimeout
     \/ /\ CatchIOError("get_particulates", "pms5003.read")
        /\ UNCHANGED pms_data
     \/ \E d \in hw.pms :
          /\ io' = [read |-> "pms5003.read", outcome |-> "ok"]
          /\ pms_data' = d
          /\ gauge' = GaugeSet(gauge, "PM1", d.pm1)
          /\ pc' = "PM25.set"
          /\ UNCHANGED <<hist, io_errors>>
  /\ UNCHANGED <<confvars, cycle, resets, cpu_temps, aqi_arg, sensor_data,
                 pubvars>>

set_PM25 ==
  /\ pc = "PM25.set"
  /\ gauge' = GaugeSet(gauge, "PM25", pms_data.pm25)
  /\ pc' = "PM10.set"
  /\ UNCHANGED <<confvars, hist, cycle, io, io_errors, resets, cpu_temps,
                 pms_data, aqi_arg, sensor_data, pubvars>>

set_PM10 ==
  /\ pc = "PM10.set"
  /\ gauge' = GaugeSet(gauge, "PM10", pms_data.pm10)
  /\ pc' = "AQI.set"
  /\ UNCHANGED <<confvars, hist, cycle, io, io_errors, resets, cpu_temps,
                 pms_data, aqi_arg, sensor_data, pubvars>>

set_AQI ==
  /\ pc = "AQI.set"
  /\ aqi_arg' = <<pm25_value(pms_data.pm25), pm10_value(pms_data.pm10)>>
  /\ gauge' = GaugeSet(gauge, "AQI", to_aqi(aqi_arg'[1], aqi_arg'[2]))
  /\ hist' = Observe(Observe(Observe(hist,
                "PM1_HIST", PM1_observation(pms_data)),
                "PM25_HIST", PM25_observation(pms_data)),
                "PM10_HIST", PM10_observation(pms_data))
  /\ pms_data' = <<>>
  /\ pc' = AfterRoutine("get_particulates")
  /\ UNCHANGED <<confvars, cycle, io, io_errors, resets, cpu_temps,
                 sensor_data, pubvars>>

(***************************************************************************)
(* collect_all_data.                                                       *)
(***************************************************************************)
\* Fields with the gauges of the two PM keys exchanged.
Fields_swapped_pm ==
  << <<"BME280_temperature", "TEMPERATURE">>,
     <<"BME280_humidity", "HUMIDITY">>,
     <<"BME280_pressure", "PRESSURE">>,
     <<"MICS6814_oxidising", "OXIDISING">>,
     <<"MICS6814_reducing", "REDUCING">>,
     <<"MICS6814_nh3", "NH3">>,
     <<"LTR559_lux", "LUX">>,
     <<"LTR559_proximity", "PROXIMITY">>,
     <<"PMS_P0", "PM1">>,
     <<"PMS_P1", "PM25">>,
     <<"PMS_P2", "PM10">>,
     <<"AQI_value", "AQI">>,
     <<"AQI_category", "AQI">> >>

\* Fields without the derived category.
Fields_without_category ==
  << <<"BME280_temperature", "TEMPERATURE">>,
     <<"BME280_humidity", "HUMIDITY">>,
     <<"BME280_pressure", "PRESSURE">>,
     <<"MICS6814_oxidising", "OXIDISING">>,
     <<"MICS6814_reducing", "REDUCING">>,
     <<"MICS6814_nh3", "NH3">>,
     <<"LTR559_lux", "LUX">>,
     <<"LTR559_proximity", "PROXIMITY">>,
     <<"PMS_P0", "PM1">>,
     <<"PMS_P1", "PM10">>,
     <<"PMS_P2", "PM25">>,
     <<"AQI_value", "AQI">> >>

\* The keys in the order the function stores them, each with the gauge read.
Fields ==
  << <<"BME280_temperature", "TEMPERATURE">>,
     <<"BME280_humidity", "HUMIDITY">>,
     <<"BME280_pressure", "PRESSURE">>,
     <<"MICS6814_oxidising", "OXIDISING">>,
     <<"MICS6814_reducing", "REDUCING">>,
     <<"MICS6814_nh3", "NH3">>,
     <<"LTR559_lux", "LUX">>,
     <<"LTR559_proximity", "PROXIMITY">>,
     <<"PMS_P0", "PM1">>,
     <<"PMS_P1", "PM10">>,
     <<"PMS_P2", "PM25">>,
     <<"AQI_value", "AQI">>,
     <<"AQI_category", "AQI">> >>

\* What statement i of collect_all_data stores, given the gauges it sees.
FieldValue(i, g) ==
  IF Fields[i][1] = "AQI_category" THEN get_aqi_category(g["AQI"])
  ELSE g[Fields[i][2]]

\* Statements from..to run against the gauges g, added to dictionary data.
RECURSIVE CollectFields(_, _, _, _)
CollectFields(data, from, to, g) ==
  IF from > to THEN data
  ELSE CollectFields((Fields[from][1] :> FieldValue(from, g)) @@ data,
                     from + 1, to, g)

\* The whole function with no write in between: the main thread is the
\* only writer of the gauges, so its own call sees them stand still.
collect_all_data(g) == CollectFields(<<>>, 1, Len(Fields), g)

\* if DEBUG: logging.info(collect_all_data()); then the next iteration.
loop_end ==
  /\ pc = "loop_end"
  /\ sensor_data' = [sensor_data EXCEPT
        !["main"] = IF DEBUG THEN collect_all_data(gauge) ELSE <<>>]
  /\ cycle' = cycle + 1
  /\ pc' = "get_temperature"
  /\ UNCHANGED <<confvars, gauge, hist, io, io_errors, resets, cpu_temps,
                 pms_data, aqi_arg, pubvars>>

MainLoop ==
  \/ get_temperature
  \/ get_pressure
  \/ get_humidity
  \/ get_light
  \/ get_gas
  \/ get_particulates
  \/ set_PM25
  \/ set_PM10
  \/ set_AQI
  \/ reset_i2c
  \/ loop_end

(***************************************************************************)
(* The publisher threads.  Each runs while True: time.sleep, then          *)
(* collect_all_data, then its own use of the dictionary.                   *)
(***************************************************************************)
\* time.sleep(...) at the head of a publisher's loop.
sleep ==
  \E t \in Threads :
    /\ tpc[t] = "sleep"
    /\ cycles[t] < MaxPosts
    /\ cycles' = [cycles EXCEPT ![t] = @ + 1]
    /\ tpc' = [tpc EXCEPT ![t] = "collect"]
    /\ sensor_data' = [sensor_data EXCEPT ![t] = <<>>]
    /\ UNCHANGED <<confvars, mainvars, influx, http_posts, luftdaten, draws,
                   previous_aqi, lcd>>

\* The statements of collect_all_data one step runs: the reads of the eight
\* weather, gas and light gauges together, every later read on its own.
StepEnd(from) == IF from <= 8 THEN 8 ELSE from

\* What the thread does with the dictionary once it is returned.
AfterCollect(t) ==
  CASE t = "influx" -> "write"
    [] t = "luftdaten" -> "values"
    [] t = "display" -> "compare"

\* collect waiting for the main thread to leave reset_i2c.
collect_after_reset ==
  \E t \in Threads :
    /\ tpc[t] = "collect"
    /\ \A routine \in ResetCallers : pc # "reset_i2c:" \o routine
    /\ LET from == Cardinality(DOMAIN sensor_data[t]) + 1
           to == StepEnd(from)
       IN  /\ sensor_data' = [sensor_data EXCEPT
                 ![t] = CollectFields(@, from, to, gauge)]
           /\ tpc' = [tpc EXCEPT
                 ![t] = IF to = Len(Fields) THEN AfterCollect(t) ELSE "collect"]
    /\ UNCHANGED <<confvars, mainvars, cycles, influx, http_posts, luftdaten,
                   draws, previous_aqi, lcd>>

\* collect_all_data in a publisher thread: the main thread may write the
\* gauges between two of its steps.
collect ==
  \E t \in Threads :
    /\ tpc[t] = "collect"
    /\ LET from == Cardinality(DOMAIN sensor_data[t]) + 1
           to == StepEnd(from)
       IN  /\ sensor_data' = [sensor_data EXCEPT
                 ![t] = CollectFields(@, from, to, gauge)]
           /\ tpc' = [tpc EXCEPT
                 ![t] = IF to = Len(Fields) THEN AfterCollect(t) ELSE "collect"]
    /\ UNCHANGED <<confvars, mainvars, cycles, influx, http_posts, luftdaten,
                   draws, previous_aqi, lcd>>

\* AfterWrite without the except clause: the exception ends the thread.
AfterWrite_uncaught(result) == IF result = "OK" THEN "sleep" ELSE "dead"

\* Where post_to_influxdb goes after influxdb_api.write returned or raised:
\* except Exception logs a warning, and the while True starts over.
AfterWrite(result) == "sleep"

\* post_to_influxdb: one Point per key, then one write.
influx_write ==
  /\ tpc["influx"] = "write"
  /\ \E result \in (IF hw.net_faults THEN {"OK", "Exception"} ELSE {"OK"}) :
       /\ influx' = [writes |-> influx.writes + 1,
                     failures |-> influx.failures + (IF result = "OK" THEN 0 ELSE 1),
                     points |-> Cardinality(DOMAIN sensor_data["influx"]),
                     last |-> result]
       /\ tpc' = [tpc EXCEPT !["influx"] = AfterWrite(result)]
  /\ sensor_data' = [sensor_data EXCEPT !["influx"] = <<>>]
  /\ UNCHANGED <<confvars, mainvars, cycles, http_posts, luftdaten, draws,
                 previous_aqi, lcd>>

\* The keys post_to_luftdaten reads from the dictionary.
LuftdatenKeys == {"pm25", "pm10", "pm1", "temperature", "pressure", "humidity"}

\* "{:.2f}".format(x) for x = num / den: the value in hundredths.
Format2f(num, den) == RoundHalfEven(100 * num, den)

\* The dictionary values: the particulates as they are, the others
\* formatted, the pressure multiplied by 100 first.  sensor_data holds the
\* temperature in thousandths.
LuftdatenValues(data) ==
  [P2 |-> data["pm25"],
   P1 |-> data["pm10"],
   P0 |-> data["pm1"],
   temperature |-> Format2f(data["temperature"], 1000),
   pressure |-> Format2f(data["pressure"] * 100, 1),
   humidity |-> Format2f(data["humidity"], 1)]

\* The first character of each key of values; startswith("P") tells the
\* capital from the small letter.
FirstLetter ==
  [P2 |-> "P", P1 |-> "P", P0 |-> "P",
   temperature |-> "t", pressure |-> "p", humidity |-> "h"]

pm_values(values) ==
  [key \in {k \in DOMAIN values : FirstLetter[k] = "P"} |-> values[key]]

temperature_values(values) ==
  [key \in {k \in DOMAIN values : FirstLetter[k] # "P"} |-> values[key]]

\* What requests.post can do: a response with ok set, one without, or a
\* transport exception.
Responses == IF hw.net_faults THEN {"ok", "not ok", "Exception"} ELSE {"ok"}

\* post_to_luftdaten: values["P2"] = sensor_data["pm25"] names a key that
\* collect_all_data never stores; the KeyError is raised before the try
\* and ends the thread.  With a dictionary that has the six keys the
\* function goes on to the try.
luftdaten_values ==
  /\ tpc["luftdaten"] = "values"
  /\ IF LuftdatenKeys \subseteq DOMAIN sensor_data["luftdaten"]
     THEN /\ luftdaten' = [values |-> LuftdatenValues(sensor_data["luftdaten"]),
                           responses |-> <<>>,
                           report |-> ""]
          /\ tpc' = [tpc EXCEPT !["luftdaten"] = "post_pin_1"]
     ELSE /\ tpc' = [tpc EXCEPT !["luftdaten"] = "dead"]
          /\ UNCHANGED luftdaten
  /\ sensor_data' = [sensor_data EXCEPT !["luftdaten"] = <<>>]
  /\ UNCHANGED <<confvars, mainvars, cycles, influx, http_posts, draws,
                 previous_aqi, lcd>>

\* The first requests.post of the try.  An exception leaves the try for
\* the except clause, which logs a warning; the while True starts over.
luftdaten_post_pin_1 ==
  /\ tpc["luftdaten"] = "post_pin_1"
  /\ http_posts' = Append(http_posts,
        [pin |-> "1", sensordatavalues |-> pm_values(luftdaten.values)])
  /\ \E response_pin_1 \in Responses :
       IF response_pin_1 = "Exception"
       THEN /\ luftdaten' = [luftdaten EXCEPT !.report = "Exception"]
            /\ tpc' = [tpc EXCEPT !["luftdaten"] = "sleep"]
       ELSE /\ luftdaten' = [luftdaten EXCEPT !.responses = <<response_pin_1>>]
            /\ tpc' = [tpc EXCEPT !["luftdaten"] = "post_pin_11"]
  /\ UNCHANGED <<confvars, mainvars, sensor_data, cycles, influx, draws,
                 previous_aqi, lcd>>

\* The report with "or" in the place of "and".
LuftdatenReport_either(response_pin_1, response_pin_11) ==
  IF response_pin_1 = "ok" \/ response_pin_11 = "ok"
  THEN IF DEBUG THEN "OK" ELSE ""
  ELSE "Failed"

\* if response_pin_1.ok and response_pin_11.ok: the line logged, "" for
\* none (the OK line is logged under DEBUG only).
LuftdatenReport(response_pin_1, response_pin_11) ==
  IF response_pin_1 = "ok" /\ response_pin_11 = "ok"
  THEN IF DEBUG THEN "OK" ELSE ""
  ELSE "Failed"

\* The second requests.post and the report on both responses.
luftdaten_post_pin_11 ==
  /\ tpc["luftdaten"] = "post_pin_11"
  /\ http_posts' = Append(http_posts,
        [pin |-> "11",
         sensordatavalues |-> temperature_values(luftdaten.values)])
  /\ \E response_pin_11 \in Responses :
       IF response_pin_11 = "Exception"
       THEN luftdaten' = [luftdaten EXCEPT !.report = "Exception"]
       ELSE luftdaten' = [luftdaten EXCEPT
              !.responses = Append(@, response_pin_11),
              !.report = LuftdatenReport(luftdaten.responses[1],
                                         response_pin_11)]
  /\ tpc' = [tpc EXCEPT !["luftdaten"] = "sleep"]
  /\ UNCHANGED <<confvars, mainvars, sensor_data, cycles, influx, draws,
                 previous_aqi, lcd>>

\* int(x) truncates towards zero; x is in tenths.
int(x) == IF x >= 0 THEN x \div 10 ELSE -((-x) \div 10)

\* display_text(message, text_color).
display_text(message, text_color) == [text |-> message, color |-> text_color]

\* refresh_display before its loop: display_text("Start", (255, 255, 255)).
display_start ==
  /\ tpc["display"] = "start"
  /\ lcd' = display_text("Start", <<255, 255, 255>>)
  /\ previous_aqi' = -1
  /\ draws' = draws + 1
  /\ tpc' = [tpc EXCEPT !["display"] = "sleep"]
  /\ UNCHANGED <<confvars, mainvars, sensor_data, cycles, influx, http_posts,
                 luftdaten>>

\* The test with its outcome fixed: every cycle draws.
differs_always(shown, previous) == TRUE

\* if int(sensor_data["AQI_value"]) != previous_aqi.
differs(shown, previous) == shown # previous

\* The body of the loop of refresh_display after collect_all_data.
display_compare ==
  /\ tpc["display"] = "compare"
  /\ LET shown == int(sensor_data["display"]["AQI_value"])
     IN  IF differs(shown, previous_aqi)
         THEN /\ previous_aqi' = shown
              /\ lcd' = display_text(ToString(shown), get_aqi_color(10 * shown))
              /\ draws' = draws + 1
         ELSE UNCHANGED <<previous_aqi, lcd, draws>>
  /\ tpc' = [tpc EXCEPT !["display"] = "sleep"]
  /\ sensor_data' = [sensor_data EXCEPT !["display"] = <<>>]
  /\ UNCHANGED <<confvars, mainvars, cycles, influx, http_posts, luftdaten>>

Publishers ==
  \/ sleep
  \/ collect
  \/ influx_write
  \/ luftdaten_values
  \/ display_start
  \/ display_compare

(***************************************************************************)
(* Runs explored: a command line and the hardware it runs on.              *)
(***************************************************************************)
AllRoutines == {"get_temperature"} \cup ResetCallers

PmsReadings ==
  { [pm1 |-> 100, pm25 |-> 150,  pm10 |-> 220],
    [pm1 |-> 100, pm25 |-> 6000, pm10 |-> 7000] }

CpuReadings == {35000, 45000}

\* The sampling loop alone, on hardware that can fail in every way.
SamplerRuns ==
  { [args |-> [factor |-> f, enviro |-> e, influxdb |-> FALSE,
               luftdaten |-> FALSE, show |-> FALSE],
     DEBUG |-> d,
     hw |-> [io_faults |-> AllRoutines, timeouts |-> TRUE,
             pms |-> PmsReadings, cpu |-> CpuReadings, net_faults |-> FALSE]]
    : f \in {<<>>, <<0>>, <<20>>}, e \in BOOLEAN, d \in BOOLEAN }

\* The sampling loop together with one publisher thread.
PublisherFlags ==
  { [influxdb |-> TRUE,  luftdaten |-> FALSE, show |-> FALSE],
    [influxdb |-> FALSE, luftdaten |-> TRUE,  show |-> FALSE],
    [influxdb |-> FALSE, luftdaten |-> FALSE, show |-> TRUE] }

PublisherRuns ==
  { [args |-> [factor |-> <<>>, enviro |-> FALSE, influxdb |-> p.influxdb,
               luftdaten |-> p.luftdaten, show |-> p.show],
     DEBUG |-> FALSE,
     hw |-> [io_faults |-> {"get_particulates"}, timeouts |-> FALSE,
             pms |-> PmsReadings, cpu |-> CpuReadings, net_faults |-> TRUE]]
    : p \in PublisherFlags }

\* The sampling loop on an Enviro board (no gas sensor, no particulate
\* sensor) together with two publisher threads: one whose writes can fail
\* and the one that ends on its KeyError.
ConcurrentRuns ==
  { [args |-> [factor |-> <<>>, enviro |-> TRUE, influxdb |-> TRUE,
               luftdaten |-> TRUE, show |-> FALSE],
     DEBUG |-> FALSE,
     hw |-> [io_faults |-> {}, timeouts |-> FALSE,
             pms |-> PmsReadings, cpu |-> CpuReadings, net_faults |-> TRUE]] }

Scenarios == SamplerRuns \cup PublisherRuns \cup ConcurrentRuns

vars == <<args, DEBUG, hw, gauge, hist, pc, cycle, io, io_errors, resets,
          cpu_temps, pms_data, aqi_arg, sensor_data, tpc, cycles, influx,
          http_posts, luftdaten, draws, previous_aqi, lcd, lookup>>

\* The state once __main__ has parsed the command line, started the
\* publisher threads it asks for and reached its while True.
Start(s) ==
  /\ args = s.args
  /\ DEBUG = s.DEBUG
  /\ hw = s.hw
  /\ gauge = [name \in Gauges |-> 0]
  /\ hist = [name \in Histograms |-> <<>>]
  /\ pc = "get_temperature"
  /\ cycle = 0
  /\ io = [read |-> "", outcome |-> ""]
  /\ io_errors = 0
  /\ resets = 0
  /\ cpu_temps = <<>>
  /\ pms_data = <<>>
  /\ aqi_arg = <<>>
  /\ sensor_data = [t \in {"main"} \cup Threads |-> <<>>]
  /\ tpc = [t \in Threads |->
              CASE t = "influx" -> IF args.influxdb THEN "sleep" ELSE "off"
                [] t = "luftdaten" -> IF args.luftdaten THEN "sleep" ELSE "off"
                [] t = "display" -> IF args.show THEN "start" ELSE "off"]
  /\ cycles = [t \in Threads |-> 0]
  /\ influx = [writes |-> 0, failures |-> 0, points |-> 0, last |-> ""]
  /\ http_posts = <<>>
  /\ luftdaten = [values |-> <<>>, responses |-> <<>>, report |-> ""]
  /\ draws = 0
  /\ previous_aqi = -1
  /\ lcd = display_text("", <<>>)

NoLookup == [aqi_value |-> 0, category |-> "", color |-> <<>>, done |-> FALSE]

Init ==
  /\ \E s \in Scenarios : Start(s)
  /\ lookup = NoLookup

Next == MainLoop \/ Publishers

Spec == Init /\ [][Next]_vars

(***************************************************************************)
(* The band functions on their own: get_aqi_category and get_aqi_color     *)
(* are called once on a value drawn from around the whole band range,      *)
(* while the program itself stands still.                                  *)
(***************************************************************************)
\* How far below -1 and above 500 the values go, in tenths.
BandMargin == 20

AqiValues == (-10 - BandMargin) .. (5000 + BandMargin)

lookup_bands ==
  /\ ~lookup.done
  /\ lookup' = [aqi_value |-> lookup.aqi_value,
                category |-> get_aqi_category(lookup.aqi_value),
                color |-> get_aqi_color(lookup.aqi_value),
                done |-> TRUE]
  /\ UNCHANGED <<args, DEBUG, hw, mainvars, sensor_data, pubvars>>

InitBands ==
  /\ Start(CHOOSE s \in SamplerRuns : TRUE)
  /\ \E v \in AqiValues : lookup = [NoLookup EXCEPT !.aqi_value = v]

SpecBands == InitBands /\ [][lookup_bands]_vars

(***************************************************************************)
(* post_to_luftdaten on its own from the dictionary on: the thread stands  *)
(* behind collect_all_data in its first cycle, with the dictionary that    *)
(* collect_all_data returns or with one that has the keys the function     *)
(* reads, and runs to the end of the cycle.                                *)
(***************************************************************************)
LuftdatenDicts ==
  { [pm25 |-> d.pm25, pm10 |-> d.pm10, pm1 |-> d.pm1,
     temperature |-> t, pressure |-> p, humidity |-> h]
    : d \in PmsReadings, t \in {19994, 25000}, p \in PressureReadings,
      h \in {40, 55} }

InitLuftdaten ==
  /\ args = [factor |-> <<>>, enviro |-> FALSE, influxdb |-> FALSE,
             luftdaten |-> TRUE, show |-> FALSE]
  /\ DEBUG \in BOOLEAN
  /\ hw = [io_faults |-> {}, timeouts |-> FALSE, pms |-> PmsReadings,
           cpu |-> CpuReadings, net_faults |-> TRUE]
  /\ gauge = [name \in Gauges |-> 0]
  /\ hist = [name \in Histograms |-> <<>>]
  /\ pc = "get_temperature"
  /\ cycle = 0
  /\ io = [read |-> "", outcome |-> ""]
  /\ io_errors = 0
  /\ resets = 0
  /\ cpu_temps = <<>>
  /\ pms_data = <<>>
  /\ aqi_arg = <<>>
  /\ \E data \in LuftdatenDicts \cup {collect_all_data(gauge)} :
       sensor_data = [t \in {"main"} \cup Threads |->
                        IF t = "luftdaten" THEN data ELSE <<>>]
  /\ tpc = [t \in Threads |-> IF t = "luftdaten" THEN "values" ELSE "off"]
  /\ cycles = [t \in Threads |-> IF t = "luftdaten" THEN 1 ELSE 0]
  /\ influx = [writes |-> 0, failures |-> 0, points |-> 0, last |-> ""]
  /\ http_posts = <<>>
  /\ luftdaten = [values |-> <<>>, responses |-> <<>>, report |-> ""]
  /\ draws = 0
  /\ previous_aqi = -1
  /\ lcd = display_text("", <<>>)
  /\ lookup = NoLookup

NextLuftdaten ==
  \/ luftdaten_values
  \/ luftdaten_post_pin_1
  \/ luftdaten_post_pin_11

SpecLuftdaten == InitLuftdaten /\ [][NextLuftdaten]_vars

(***************************************************************************)
(* Properties.  A step of the main thread is one that moves pc.            *)
(***************************************************************************)
MainStep(at) == pc = at /\ pc' # pc

InResetHandler == \E routine \in ResetCallers : pc = "reset_i2c:" \o routine

WeatherReads == {"bme280.get_temperature", "bme280.get_pressure",
                 "bme280.get_humidity"}

\* C1: an IOError raised by the read of get_temperature, get_pressure or
\* get_humidity never ends the sampling loop, and once its handler is over
\* every IOError raised so far has been answered by exactly one reset_i2c.
C1_WeatherFaultResetsOnceAndLoopGoesOn ==
  (io.outcome = "IOError" /\ io.read \in WeatherReads) =>
     /\ pc # "crashed"
     /\ ~InResetHandler => resets = io_errors

\* C2: a step of get_particulates in which pms5003.read raises the read
\* timeout calls no reset_i2c, leaves every gauge and every histogram as it
\* was, and takes the loop to the end of its iteration.
C2_ReadTimeoutIsSwallowed ==
  [][(MainStep("get_particulates") /\ io'.outcome = "ReadTimeoutError") =>
       /\ pc' = "loop_end"
       /\ resets' = resets
       /\ gauge' = gauge
       /\ hist' = hist]_vars

\* A timeout in a cycle after one whose particulate read succeeded: the
\* values of that earlier read are still there.
C2_Witness ==
  /\ io.outcome = "ReadTimeoutError"
  /\ pc = "loop_end"
  /\ cycle = 1
  /\ gauge["PM25"] = 150
  /\ gauge["AQI"] = 570
  /\ hist["PM25_HIST"] = <<50>>

C3_Min(a, b) == IF a < b THEN a ELSE b

\* C3: after a successful particulate read the concentrations handed to
\* aqi.to_aqi are min(pm2.5, 500.4) and min(pm10, 604), while the PM25 and
\* PM10 gauges hold the raw readings.
C3_IndexInputIsClampedGaugesAreRaw ==
  [][MainStep("AQI.set") =>
       /\ aqi_arg' = <<C3_Min(pms_data.pm25, 5004), C3_Min(pms_data.pm10, 6040)>>
       /\ gauge'["PM25"] = pms_data.pm25
       /\ gauge'["PM10"] = pms_data.pm10]_vars

\* pm2.5 = 600 and pm10 = 700 reach the index algorithm as 500.4 and 604.
C3_Witness ==
  /\ aqi_arg = <<5004, 6040>>
  /\ gauge["PM25"] = 6000
  /\ gauge["PM10"] = 7000
  /\ pc = "loop_end"

\* C4: a successful particulate read adds exactly one observation to each
\* PM histogram: pm1, pm2.5 - pm1 and pm10 - pm2.5 of the raw reading.
C4_HistogramsObserveBandDifferences ==
  [][MainStep("AQI.set") =>
       /\ hist'["PM1_HIST"] = Append(hist["PM1_HIST"], gauge["PM1"])
       /\ hist'["PM25_HIST"] = Append(hist["PM25_HIST"], gauge["PM25"] - gauge["PM1"])
       /\ hist'["PM10_HIST"] = Append(hist["PM10_HIST"], gauge["PM10"] - gauge["PM25"])
       /\ gauge["PM1"] = pms_data.pm1
       /\ gauge["PM25"] = pms_data.pm25
       /\ gauge["PM10"] = pms_data.pm10]_vars

\* pm1 = 10, pm2.5 = 15, pm10 = 22 are observed as 10, 5 and 7; then
\* pm1 = 10, pm2.5 = 600, pm10 = 700 as 10, 590 and 100.
C4_Witness ==
  /\ hist["PM1_HIST"] = <<100, 100>>
  /\ hist["PM25_HIST"] = <<50, 5900>>
  /\ hist["PM10_HIST"] = <<70, 1000>>

\* C5: get_temperature sets TEMPERATURE to raw - (avg - raw) / factor, avg
\* the mean of the list cpu_temps, when a non-zero factor is configured,
\* and to the raw reading when the factor is zero or absent.  The equation
\* is multiplied through by 5 * factor; the factor is in tenths.
C5_TemperatureIsCompensatedByFactor ==
  [][(MainStep("get_temperature") /\ io'.outcome = "ok") =>
       \E raw \in RawTemps :
          IF args.factor # <<>> /\ args.factor[1] # 0
          THEN /\ Len(cpu_temps') = 5
               /\ 5 * args.factor[1] * gauge'["TEMPERATURE"] =
                     5 * args.factor[1] * raw - 10 * (Sum(cpu_temps') - 5 * raw)
          ELSE gauge'["TEMPERATURE"] = raw]_vars

\* factor = 2, raw = 25, a window whose average is 35: 20 degrees.
C5_Witness ==
  /\ args.factor = <<20>>
  /\ cpu_temps = <<35000, 35000, 35000, 35000, 35000>>
  /\ gauge["TEMPERATURE"] = 20000
  /\ pc = "get_pressure"

\* C6: the smoothing window lives on between calls of get_temperature:
\* every compensated call after the first keeps the four newest samples of
\* the call before it and appends one.
C6_WindowSlidesAcrossCalls ==
  [][(MainStep("get_temperature") /\ io'.outcome = "ok" /\ cpu_temps # <<>>) =>
       SubSeq(cpu_temps', 1, 4) = SubSeq(cpu_temps, 2, 5)]_vars

\* The six bands as the claim lists them, in tenths.
C7_Band(v) ==
  CASE v <= 500 -> 1
    [] v > 500 /\ v <= 1000 -> 2
    [] v > 1000 /\ v <= 1500 -> 3
    [] v > 1500 /\ v <= 2000 -> 4
    [] v > 2000 /\ v <= 3000 -> 5
    [] v > 3000 -> 6

C7_Categories ==
  <<"Good", "Moderate", "Unhealthy for Sensitive Groups", "Unhealthy",
    "Very Unhealthy", "Hazardous">>

C7_Colours ==
  << <<0, 128, 0>>, <<255, 255, 0>>, <<255, 165, 0>>, <<255, 0, 0>>,
     <<128, 0, 128>>, <<128, 0, 0>> >>

\* C7: for -1 < v <= 500 get_aqi_category and get_aqi_color return the
\* category and the colour of the one band (lo, hi] that holds v, an upper
\* bound belonging to the lower band; the two functions pick the same band,
\* and neither finds one where the other finds none.
C7_BandsAreHalfOpenUpperInclusive ==
  lookup.done =>
    LET v == lookup.aqi_value
    IN  /\ (v > -10 /\ v <= 5000) =>
              /\ lookup.category = C7_Categories[C7_Band(v)]
              /\ lookup.color = C7_Colours[C7_Band(v)]
              /\ Cardinality({i \in 1..6 : AQI_CATEGORIES[i].lo < v
                                           /\ v <= AQI_CATEGORIES[i].hi}) = 1
              /\ Cardinality({i \in 1..6 : AQI_COLORS[i].lo < v
                                           /\ v <= AQI_COLORS[i].hi}) = 1
        /\ (lookup.category = "None") <=> (lookup.color = <<>>)

\* 50 is still Good and green.
C7_Witness ==
  /\ lookup.done
  /\ lookup.aqi_value = 500
  /\ lookup.category = "Good"
  /\ lookup.color = <<0, 128, 0>>

\* The keys of a dictionary collect_all_data returns, with the gauge each
\* of the first twelve is read from.
C8_ChannelOf ==
  ("BME280_temperature" :> "TEMPERATURE") @@ ("BME280_humidity" :> "HUMIDITY")
  @@ ("BME280_pressure" :> "PRESSURE") @@ ("MICS6814_oxidising" :> "OXIDISING")
  @@ ("MICS6814_reducing" :> "REDUCING") @@ ("MICS6814_nh3" :> "NH3")
  @@ ("LTR559_lux" :> "LUX") @@ ("LTR559_proximity" :> "PROXIMITY")
  @@ ("PMS_P0" :> "PM1") @@ ("PMS_P1" :> "PM10") @@ ("PMS_P2" :> "PM25")
  @@ ("AQI_value" :> "AQI")

C8_Keys == DOMAIN C8_ChannelOf \cup {"AQI_category"}

\* The callers that hold a dictionary collect_all_data has returned.
Returned(t) ==
  IF t = "main" THEN sensor_data[t] # <<>>
  ELSE tpc[t] \in {"write", "values", "compare"}

\* C8: every dictionary collect_all_data returns, to the main thread or to
\* a publisher, at any point of any run, has exactly the thirteen keys; a
\* gauge that was never set (no reading is zero, so: one that is zero)
\* appears as zero, and the category of the default index is there too.
C8_SnapshotHasTheFullFieldSet ==
  \A t \in Threads \cup {"main"} :
    Returned(t) =>
      /\ DOMAIN sensor_data[t] = C8_Keys
      /\ \A k \in DOMAIN C8_ChannelOf :
           gauge[C8_ChannelOf[k]] = 0 => sensor_data[t][k] = 0
      /\ gauge["AQI"] = 0 => sensor_data[t]["AQI_category"] = "Good"

\* A publisher's snapshot taken before any sensor read has succeeded.
C8_Witness ==
  /\ tpc["influx"] = "write"
  /\ cycle = 0
  /\ pc = "get_temperature"
  /\ DOMAIN sensor_data["influx"] = C8_Keys
  /\ \A k \in DOMAIN C8_ChannelOf : sensor_data["influx"][k] = 0

\* The index of the clamped PM fields of a dictionary.
C9_IndexOf(pm25, pm10) == to_aqi(C3_Min(pm25, 5004), C3_Min(pm10, 6040))

\* C9 as claimed: in every dictionary collect_all_data returns, AQI_value
\* is the index of the clamped PMS_P2 and PMS_P1 of the same dictionary.
C9_SnapshotIndexMatchesItsOwnPM ==
  \A t \in Threads \cup {"main"} :
    Returned(t) =>
      sensor_data[t]["AQI_value"] =
        C9_IndexOf(sensor_data[t]["PMS_P2"], sensor_data[t]["PMS_P1"])

Publishing == pc \in {"PM25.set", "PM10.set", "AQI.set"}

\* C9 as amended: AQI_value is a copy of the AQI gauge, which
\* get_particulates sets after the PM gauges.  While the main thread is
\* not between its PM1.set and its AQI.set the AQI gauge is the index of
\* the clamped PM25 and PM10 gauges; every dictionary the main thread
\* itself collects is consistent; and so is every publisher's dictionary
\* whose AQI read happens outside such a stretch with the PM values it has
\* read still current.
C9_IndexIsStoredAndConsistentOutsideAWrite ==
  /\ [](~Publishing => gauge["AQI"] = C9_IndexOf(gauge["PM25"], gauge["PM10"]))
  /\ [](sensor_data["main"] # <<>> =>
          sensor_data["main"]["AQI_value"] =
            C9_IndexOf(sensor_data["main"]["PMS_P2"], sensor_data["main"]["PMS_P1"]))
  /\ [][\A t \in Threads :
          ( /\ "AQI_value" \notin DOMAIN sensor_data[t]
            /\ "AQI_value" \in DOMAIN sensor_data'[t]
            /\ ~Publishing
            /\ sensor_data[t]["PMS_P2"] = gauge["PM25"]
            /\ sensor_data[t]["PMS_P1"] = gauge["PM10"] )
          => sensor_data'[t]["AQI_value"] =
               C9_IndexOf(sensor_data'[t]["PMS_P2"], sensor_data'[t]["PMS_P1"])]_vars

\* A publisher's dictionary of the clamped reading, collected while the
\* main thread was elsewhere: its index is that of its own PM fields.
C9_Witness ==
  /\ tpc["influx"] = "write"
  /\ ~Publishing
  /\ sensor_data["influx"]["PMS_P2"] = 6000
  /\ sensor_data["influx"]["PMS_P1"] = 7000
  /\ sensor_data["influx"]["AQI_value"] = 5000

\* C10: an exception of influxdb_api.write never ends post_to_influxdb:
\* the thread is always in its loop, every iteration it has begun has made
\* exactly one write attempt once it is past the write (none is retried,
\* none is skipped), and every write is handed a complete dictionary
\* collected in the same iteration.
C10_InfluxLoopSurvivesFailedWrites ==
  args.influxdb =>
    /\ tpc["influx"] \in {"sleep", "collect", "write"}
    /\ influx.writes =
         cycles["influx"] - (IF tpc["influx"] \in {"collect", "write"} THEN 1 ELSE 0)
    /\ tpc["influx"] = "write" => DOMAIN sensor_data["influx"] = C8_Keys
    /\ tpc["influx"] = "sleep" => sensor_data["influx"] = <<>>
    /\ influx.writes > 0 => influx.points = 13

\* A write that raised in the first iteration, a write that went through
\* in the second.
C10_Witness ==
  /\ influx.writes = 2
  /\ influx.failures = 1
  /\ influx.last = "OK"
  /\ tpc["influx"] = "sleep"


\* The requests of the cycle that has just ended are the pin-1 request
\* with the three particulate values and then the pin-11 request with the
\* temperature, the pressure and the humidity.
C11_LastTwoRequests ==
  /\ Len(http_posts) >= 2
  /\ LET first == http_posts[Len(http_posts) - 1]
         second == http_posts[Len(http_posts)]
     IN  /\ first.pin = "1"
         /\ DOMAIN first.sensordatavalues = {"P0", "P1", "P2"}
         /\ second.pin = "11"
         /\ DOMAIN second.sensordatavalues =
              {"temperature", "pressure", "humidity"}

\* C11: with the luftdaten publisher enabled post_to_luftdaten never ends,
\* and every cycle it has finished has sent two requests built from the
\* dictionary of collect_all_data: pin 1 with the three particulate values,
\* then pin 11 with temperature, pressure and humidity.
C11_EveryCycleSendsPin1ThenPin11 ==
  args.luftdaten =>
    /\ tpc["luftdaten"] # "dead"
    /\ (tpc["luftdaten"] = "sleep" /\ cycles["luftdaten"] >= 1) =>
         /\ Len(http_posts) = 2 * cycles["luftdaten"]
         /\ C11_LastTwoRequests

\* The thread of post_to_luftdaten is inside its try or has left it.
C12_SendStepReached == http_posts # <<>>

C13_Compare == tpc["display"] = "compare" /\ tpc'["display"] = "sleep"

\* C13: a cycle of refresh_display draws if and only if the truncated
\* AQI_value of its dictionary differs from the integer drawn last (-1
\* before the first draw, so the first cycle draws); what it draws is that
\* integer in the colour of the band that holds it, and never the text the
\* display already shows.
C13_RedrawsExactlyOnChange ==
  [][C13_Compare =>
       LET n == int(sensor_data["display"]["AQI_value"])
       IN  /\ draws >= 1
           /\ draws = 1 => previous_aqi = -1
           /\ draws >= 2 => lcd.text = ToString(previous_aqi)
           /\ (draws' = draws + 1) <=> (n # previous_aqi)
           /\ draws' \in {draws, draws + 1}
           /\ cycles["display"] = 1 => draws' = draws + 1
           /\ draws' = draws + 1 =>
                /\ previous_aqi' = n
                /\ lcd'.text = ToString(n)
                /\ lcd'.text # lcd.text
                /\ lcd'.color = C7_Colours[C7_Band(10 * n)]
           /\ draws' = draws =>
                /\ previous_aqi' = previous_aqi
                /\ lcd' = lcd]_vars

\* The second cycle found the index the first one drew and drew nothing.
C13_Witness ==
  /\ tpc["display"] = "sleep"
  /\ cycles["display"] = 2
  /\ draws = 2
  /\ previous_aqi = 57
  /\ lcd = display_text("57", <<255, 255, 0>>)


\* The buckets that hold an observation; the count of any other is zero
\* and cannot go down.
C15_Filled(name, observations) ==
  {BucketOf(BUCKETS[name], observations[k]) : k \in 1..Len(observations)}

\* C15: no step lowers the count of any bucket of any of the six
\* histograms; a histogram changes only in the step of get_gas whose read
\* succeeded (the three gas histograms) or in the last step of a
\* get_particulates whose read succeeded (the three PM histograms), never
\* in a fault or timeout step and never in a step of a publisher or of
\* collect_all_data.
C15_HistogramsOnlyGrowOnSuccessfulReads ==
  [][hist' # hist =>
       /\ \A name \in Histograms :
            \A i \in C15_Filled(name, hist[name]) :
              BucketCount(name, hist'[name], i) >=
                BucketCount(name, hist[name], i)
       /\ \A name \in Histograms : Len(hist'[name]) \in {Len(hist[name]),
                                                        Len(hist[name]) + 1}
       /\ \/ /\ MainStep("get_gas")
             /\ io' = [read |-> "gas.read_all", outcome |-> "ok"]
             /\ \A name \in {"PM1_HIST", "PM25_HIST", "PM10_HIST"} :
                  hist'[name] = hist[name]
          \/ /\ MainStep("AQI.set")
             /\ io' = [read |-> "pms5003.read", outcome |-> "ok"]
             /\ \A name \in {"OXIDISING_HIST", "REDUCING_HIST", "NH3_HIST"} :
                  hist'[name] = hist[name]
       /\ tpc' = tpc
       /\ sensor_data' = sensor_data]_vars

\* Two gas reads and one particulate read have been observed; the second
\* particulate read timed out.
C15_Witness ==
  /\ Len(hist["OXIDISING_HIST"]) = 2
  /\ BucketCount("OXIDISING_HIST", hist["OXIDISING_HIST"], 4) = 2
  /\ Len(hist["PM25_HIST"]) = 1
  /\ BucketCount("PM25_HIST", hist["PM25_HIST"], 2) = 1
  /\ io.outcome = "ReadTimeoutError"

\* The routine a position of the main thread belongs to.
C16_RoutineAt(at) ==
  CASE at \in {"get_particulates", "PM25.set", "PM10.set", "AQI.set",
               "reset_i2c:get_particulates"} -> "get_particulates"
    [] at \in {"get_gas", "reset_i2c:get_gas"} -> "get_gas"
    [] at \in {"get_light", "reset_i2c:get_light"} -> "get_light"
    [] at \in {"get_humidity", "reset_i2c:get_humidity"} -> "get_humidity"
    [] at \in {"get_pressure", "reset_i2c:get_pressure"} -> "get_pressure"
    [] OTHER -> at

\* The order of the routines in a cycle as the claim gives it.
C16_Order ==
  IF args.enviro
  THEN <<"get_temperature", "get_pressure", "get_humidity", "get_light",
         "loop_end">>
  ELSE <<"get_temperature", "get_pressure", "get_humidity", "get_light",
         "get_gas", "get_particulates", "loop_end">>

C16_Successor(routine) ==
  LET i == CHOOSE k \in 1..Len(C16_Order) : C16_Order[k] = routine
  IN  IF i = Len(C16_Order) THEN C16_Order[1] ELSE C16_Order[i + 1]

C16_GasAndPM == {"OXIDISING", "REDUCING", "NH3", "PM1", "PM25", "PM10", "AQI"}

\* C16: with args.enviro set the main thread never enters get_gas or
\* get_particulates, the seven gas, PM and AQI gauges stay zero and the six
\* histograms stay empty; the routines of a cycle run in the order
\* temperature, pressure, humidity, light (then gas, particulates when the
\* flag is not set), and a successful read of each of the first four sets
\* its gauges in every cycle.  (An IOError in get_temperature ends the
\* loop: see C1.)
C16_EnviroSkipsGasAndParticulates ==
  /\ [](args.enviro =>
          /\ C16_RoutineAt(pc) \notin {"get_gas", "get_particulates"}
          /\ \A name \in C16_GasAndPM : gauge[name] = 0
          /\ \A name \in Histograms : hist[name] = <<>>)
  /\ [][pc' # pc =>
          /\ \/ C16_RoutineAt(pc') = C16_RoutineAt(pc)
             \/ C16_RoutineAt(pc') = C16_Successor(C16_RoutineAt(pc))
             \/ pc = "get_temperature" /\ pc' = "crashed"
          /\ (MainStep("get_temperature") /\ io'.outcome = "ok") =>
               (~Truthy(args.factor) => gauge'["TEMPERATURE"] \in RawTemps)
          /\ (MainStep("get_pressure") /\ io'.outcome = "ok") =>
               gauge'["PRESSURE"] \in PressureReadings
          /\ (MainStep("get_humidity") /\ io'.outcome = "ok") =>
               gauge'["HUMIDITY"] \in HumidityReadings
          /\ (MainStep("get_light") /\ io'.outcome = "ok") =>
               /\ gauge'["LUX"] \in LuxReadings
               /\ gauge'["PROXIMITY"] \in ProximityReadings]_vars

\* Two whole cycles with the flag set: the weather and light gauges hold
\* readings, the others nothing.
C16_Witness ==
  /\ args.enviro
  /\ cycle = 2
  /\ gauge["TEMPERATURE"] # 0
  /\ gauge["PRESSURE"] = 1013
  /\ gauge["HUMIDITY"] = 40
  /\ gauge["LUX"] = 120
  /\ gauge["PROXIMITY"] = 7
  /\ \A name \in C16_GasAndPM : gauge[name] = 0

\* C17: when the read of get_pressure, get_humidity, get_gas, get_light
\* (either read) or get_particulates raises IOError, the step writes no
\* gauge and no histogram and enters reset_i2c; reset_i2c runs once, reads
\* nothing, writes nothing, and the loop goes on with the routine after the
\* one that failed; outside the handler every caught IOError has had
\* exactly one reset_i2c.
C17_CaughtFaultResetsOnceAndWritesNothing ==
  /\ [][\A routine \in ResetCallers :
          /\ (MainStep(routine) /\ io'.outcome = "IOError") =>
               /\ pc' = "reset_i2c:" \o routine
               /\ gauge' = gauge
               /\ hist' = hist
               /\ resets' = resets
               /\ io_errors' = io_errors + 1
          /\ MainStep("reset_i2c:" \o routine) =>
               /\ resets' = resets + 1
               /\ io' = io
               /\ io_errors' = io_errors
               /\ gauge' = gauge
               /\ hist' = hist
               /\ pc' = C16_Successor(routine)]_vars
  /\ [](~InResetHandler =>
          resets = io_errors - (IF pc = "crashed" THEN 1 ELSE 0))

\* The lux read succeeded and the proximity read failed in the first
\* cycle: LUX is still unset after the one reset, and get_gas is next.
C17_Witness ==
  /\ io = [read |-> "ltr559.get_proximity", outcome |-> "IOError"]
  /\ pc = "get_gas"
  /\ cycle = 0
  /\ resets = 1
  /\ io_errors = 1
  /\ gauge["LUX"] = 0
  /\ gauge["PROXIMITY"] = 0
  /\ gauge["HUMIDITY"] = 40

\* C18: in every dictionary collect_all_data returns, to the main thread
\* or to a publisher, AQI_category is the category of the band that holds
\* the AQI_value of the same dictionary.
C18_CategoryIsThatOfTheValue ==
  \A t \in Threads \cup {"main"} :
    Returned(t) =>
      sensor_data[t]["AQI_category"] =
        C7_Categories[C7_Band(sensor_data[t]["AQI_value"])]


\* Publisher thread t has a statement to run: it was started, has not
\* ended, and has iterations left to explore.
C14_Running(t) ==
  /\ tpc[t] \notin {"off", "dead"}
  /\ ~(tpc[t] = "sleep" /\ cycles[t] = MaxPosts)

\* The main thread has a statement to run.
C14_Sampling ==
  /\ pc # "crashed"
  /\ ~(pc = "get_temperature" /\ cycle = MaxCycles)

\* Some publisher has had a fault: a write that raised, or the end of the
\* thread on an uncaught error.
C14_PublisherFault ==
  influx.failures > 0 \/ \E t \in Threads : tpc[t] = "dead"

\* C14: after a failed write of one publisher or the end of a publisher
\* thread on an uncaught error, the main thread and every other running
\* publisher can still take their next step; and while the main thread is
\* inside reset_i2c every running publisher can take its next step, be it
\* the sleep, a read of collect_all_data or the publishing.
C14_FaultsAndResetsBlockNoOtherThread ==
  (C14_PublisherFault \/ InResetHandler) =>
    /\ C14_Sampling => ENABLED MainLoop
    /\ \A t \in Threads :
         C14_Running(t) =>
           ENABLED (Publishers /\ <<tpc'[t], sensor_data'[t]>> #
                                    <<tpc[t], sensor_data[t]>>)

\* post_to_luftdaten has ended, a write of post_to_influxdb has failed,
\* the main thread is in its second cycle, and post_to_influxdb is
\* collecting in its second cycle.
C14_Witness ==
  /\ tpc["luftdaten"] = "dead"
  /\ influx.failures = 1
  /\ cycle = 1
  /\ pc = "get_light"
  /\ tpc["influx"] = "collect"
  /\ cycles["influx"] = 2
  /\ DOMAIN sensor_data["influx"] # {}

====
